---------------------------- MODULE Spec2Model ----------------------------
(***************************************************************************)
(* A model of src/lib.rs of empty-box: EmptyBox<T>, an emptied Box whose   *)
(* allocation is kept for reuse.  The model follows the three pieces of    *)
(* code statement by statement:                                            *)
(*    EmptyBox::take   (lines 55-59)                                       *)
(*    EmptyBox::put    (lines 64-72)                                       *)
(*    Drop for EmptyBox (lines 43-49)                                      *)
(* and the caller's side as the tests and the crate example use it:        *)
(* creating values, Box::new, mem::drop of a value and of a Box.           *)
(*                                                                         *)
(* The program is single threaded.  While a handler runs (pc # "idle")     *)
(* only its next statement is enabled, so the statements of one handler    *)
(* always run to completion, in order.                                     *)
(***************************************************************************)
EXTENDS Integers, Sequences, FiniteSets, TLC

\* ----------------------------------------------------------------- bounds
MaxAddr == 2   \* addresses the allocator can hand out
MaxVals == 2   \* values of type T the caller creates
MaxOps  == 6   \* calls the caller makes (Box::new, take, put, drops)

Addr == 1..MaxAddr
Val  == 1..MaxVals
Nil  == 0      \* no address / no value (a local that holds nothing)

\* The payload of value v: the strings of the crate example (lines 10 and
\* 17), the odd values carrying the first and the even ones the second.
DataOf(v) ==
    IF v % 2 = 1 THEN "Hello!" ELSE "Objectively superior string!"

VARIABLES
    \* the heap
    mem,       \* mem[a]: the bits stored at address a (a value, or Nil)
    valid,     \* valid[a]: the bits at a are a live T owned by the slot
    live,      \* the addresses currently allocated
    nallocs,   \* allocations performed so far
    nfrees,    \* deallocations performed so far
    \* the caller's variables
    boxes,     \* addresses of the Box<T> handles the caller holds
    empties,   \* addresses (field ptr) of the EmptyBox<T> handles it holds
    held,      \* values of type T the caller holds by value
    nvals,     \* values created so far
    \* destructors
    dropped,   \* dropped[v]: times the destructor of v has run
    counter,   \* the Cell<usize> of the tests' DropCounter
    \* the running handler
    pc,        \* the statement about to run; "idle" between calls
    self,      \* the EmptyBox argument of put / drop (its ptr), Nil once forgotten
    ptr,       \* the local `ptr` of take and put
    t,         \* the local `t` of take, the argument `t` of put
    boxed,     \* the local `boxed` of drop (the address it owns)
    inner,     \* the local `inner` of drop
    \* observation
    access,    \* the last access to the heap: what, where, slot valid before
    hist,      \* the calls made so far, in order
    fault      \* "none", or the memory error the execution ran into

vars == <<mem, valid, live, nallocs, nfrees, boxes, empties, held, nvals,
          dropped, counter, pc, self, ptr, t, boxed, inner, access, hist, fault>>

heapVars   == <<mem, valid, live, nallocs, nfrees>>
callerVars == <<boxes, empties, held, nvals>>
dtorVars   == <<dropped, counter>>
localVars  == <<self, ptr, t, boxed, inner>>

Call(op, a, v) == [op |-> op, a |-> a, v |-> v]
Access(kind, a) == [kind |-> kind, a |-> a, valid |-> valid[a]]
NoAccess == [kind |-> "none", a |-> Nil, valid |-> TRUE]

\* The caller may start a call: nothing runs, nothing went wrong, and the
\* bound on the number of calls is not reached.
CanCall == pc = "idle" /\ fault = "none" /\ Len(hist) < MaxOps

\* -------------------------------------------------------------------- Init
Init ==
    /\ mem = [a \in Addr |-> Nil]
    /\ valid = [a \in Addr |-> FALSE]
    /\ live = {}
    /\ nallocs = 0
    /\ nfrees = 0
    /\ boxes = {}
    /\ empties = {}
    /\ held = {}
    /\ nvals = 0
    /\ dropped = [v \in Val |-> 0]
    /\ counter = 0
    /\ pc = "idle"
    /\ self = Nil
    /\ ptr = Nil
    /\ t = Nil
    /\ boxed = Nil
    /\ inner = Nil
    /\ access = NoAccess
    /\ hist = << >>
    /\ fault = "none"

\* ------------------------------------------------------------- destructors
\* DropCounter::drop (lines 86-91): prev = get(); set(prev + 1).
DropCounter_drop(c) == c + 1

\* Running the destructor of the T whose bits are v.
RunDestructor(v) ==
    /\ dropped' = [dropped EXCEPT ![v] = @ + 1]
    /\ counter' = DropCounter_drop(counter)

\* ---------------------------------------------------------------- caller
\* A new value of type T: "Hello!".to_string() (line 10), DropCounter(&counter)
\* (lines 116, 130, 135).
NewValue ==
    /\ pc = "idle" /\ fault = "none"
    /\ nvals < MaxVals
    /\ nvals' = nvals + 1
    /\ held' = held \cup {nvals + 1}
    /\ UNCHANGED <<heapVars, boxes, empties, dtorVars, pc, localVars, access,
                   hist, fault>>

\* Box::new(v) (lines 10, 116, 130): the allocator picks any free address a,
\* v is moved into it.
BoxNew(v, a) ==
    /\ CanCall
    /\ v \in held
    /\ a \in Addr \ live
    /\ live' = live \cup {a}
    /\ nallocs' = nallocs + 1
    /\ mem' = [mem EXCEPT ![a] = v]
    /\ valid' = [valid EXCEPT ![a] = TRUE]
    /\ held' = held \ {v}
    /\ boxes' = boxes \cup {a}
    /\ access' = Access("alloc", a)
    /\ hist' = Append(hist, Call("box", a, v))
    /\ UNCHANGED <<nfrees, empties, nvals, dtorVars, pc, localVars, fault>>

\* mem::drop(dc) of a value the caller holds (lines 122, 133): its destructor
\* runs.
DropValue(v) ==
    /\ CanCall
    /\ v \in held
    /\ held' = held \ {v}
    /\ RunDestructor(v)
    /\ hist' = Append(hist, Call("drop_value", Nil, v))
    /\ UNCHANGED <<heapVars, boxes, empties, nvals, pc, localVars,
                   access, fault>>

\* mem::drop of a Box<T> (line 135): the destructor of the contents runs, then
\* the allocation is freed.
DropBox(a) ==
    /\ CanCall
    /\ a \in boxes
    /\ boxes' = boxes \ {a}
    /\ RunDestructor(mem[a])
    /\ valid' = [valid EXCEPT ![a] = FALSE]
    /\ live' = live \ {a}
    /\ nfrees' = nfrees + 1
    /\ access' = Access("destruct", a)
    /\ hist' = Append(hist, Call("drop_box", a, Nil))
    /\ fault' = IF a \in live /\ valid[a] THEN fault ELSE "invalid_drop"
    /\ UNCHANGED <<mem, nallocs, empties, held, nvals, pc, localVars>>

\* ------------------------------------------------------------ EmptyBox::take
\* Line 56: let ptr = Box::into_raw(bx).  The Box is given up without running
\* anything; its address is all that is left of it.
take_into_raw(bx) ==
    /\ CanCall
    /\ bx \in boxes
    /\ boxes' = boxes \ {bx}
    /\ ptr' = bx
    /\ pc' = "take_read"
    /\ hist' = Append(hist, Call("take", bx, Nil))
    /\ UNCHANGED <<heapVars, empties, held, nvals, dtorVars, self, t,
                   boxed, inner, access, fault>>

\* A take that also destroys the slot's contents in place after reading them
\* (ptr::read followed by ptr::drop_in_place).
take_read_dropInPlace ==
    /\ pc = "take_read"
    /\ t' = mem[ptr]
    /\ valid' = [valid EXCEPT ![ptr] = FALSE]
    /\ RunDestructor(mem[ptr])
    /\ access' = Access("read", ptr)
    /\ fault' = IF ptr \in live THEN fault ELSE "use_after_free"
    /\ pc' = "take_ret"
    /\ UNCHANGED <<mem, live, nallocs, nfrees, callerVars, self, ptr, boxed,
                   inner, hist>>

\* Line 57: let t = unsafe { ptr::read(ptr) }.  A bitwise copy: the bits stay
\* in the slot, which no longer owns them.
take_read ==
    /\ pc = "take_read"
    /\ t' = mem[ptr]
    /\ valid' = [valid EXCEPT ![ptr] = FALSE]
    /\ access' = Access("read", ptr)
    /\ fault' = IF ptr \in live THEN fault ELSE "use_after_free"
    /\ pc' = "take_ret"
    /\ UNCHANGED <<mem, live, nallocs, nfrees, callerVars, dtorVars, self, ptr,
                   boxed, inner, hist>>

\* A take that moves the value out of the Box with `*bx`: the Box's allocation
\* is freed when take returns, and the EmptyBox is left dangling.
take_return_freesBox ==
    /\ pc = "take_ret"
    /\ held' = held \cup {t}
    /\ empties' = empties \cup {ptr}
    /\ live' = live \ {ptr}
    /\ nfrees' = nfrees + 1
    /\ t' = Nil
    /\ ptr' = Nil
    /\ pc' = "idle"
    /\ UNCHANGED <<mem, valid, nallocs, boxes, nvals, dtorVars, self,
                   boxed, inner, access, hist, fault>>

\* Line 58: (t, EmptyBox { ptr }).
take_return ==
    /\ pc = "take_ret"
    /\ held' = held \cup {t}
    /\ empties' = empties \cup {ptr}
    /\ t' = Nil
    /\ ptr' = Nil
    /\ pc' = "idle"
    /\ UNCHANGED <<heapVars, boxes, nvals, dtorVars, self, boxed, inner,
                   access, hist, fault>>

\* ------------------------------------------------------------- EmptyBox::put
\* A put declared as put(&self, t): the caller keeps its EmptyBox after the
\* call.
put_enter_borrowsSelf(e, v) ==
    /\ CanCall
    /\ e \in empties
    /\ v \in held
    /\ held' = held \ {v}
    /\ self' = e
    /\ t' = v
    /\ ptr' = e
    /\ pc' = "put_forget"
    /\ hist' = Append(hist, Call("put", e, v))
    /\ UNCHANGED <<heapVars, boxes, empties, nvals, dtorVars, boxed, inner,
                   access, fault>>

\* Lines 64-65: put(self, t) is entered, let ptr = self.ptr.
put_enter(e, v) ==
    /\ CanCall
    /\ e \in empties
    /\ v \in held
    /\ empties' = empties \ {e}
    /\ held' = held \ {v}
    /\ self' = e
    /\ t' = v
    /\ ptr' = e
    /\ pc' = "put_forget"
    /\ hist' = Append(hist, Call("put", e, v))
    /\ UNCHANGED <<heapVars, boxes, nvals, dtorVars, boxed, inner,
                   access, fault>>

\* A put without line 66: `self` is still owned when the body of put ends.
put_forget_missing ==
    /\ pc = "put_forget"
    /\ pc' = "put_write"
    /\ UNCHANGED <<heapVars, callerVars, dtorVars, localVars, access, hist,
                   fault>>

\* Line 66: mem::forget(self).  The handle is gone and its drop never runs.
put_forget ==
    /\ pc = "put_forget"
    /\ self' = Nil
    /\ pc' = "put_write"
    /\ UNCHANGED <<heapVars, callerVars, dtorVars, ptr, t, boxed, inner,
                   access, hist, fault>>

\* A put that stores with `*ptr = t`: the assignment drops the old contents
\* of the slot before it writes the new ones.
put_write_assign ==
    /\ pc = "put_write"
    /\ RunDestructor(mem[ptr])
    /\ mem' = [mem EXCEPT ![ptr] = t]
    /\ valid' = [valid EXCEPT ![ptr] = TRUE]
    /\ t' = Nil
    /\ access' = Access("write", ptr)
    /\ fault' = IF ptr \in live THEN fault ELSE "use_after_free"
    /\ pc' = "put_from_raw"
    /\ UNCHANGED <<live, nallocs, nfrees, callerVars, self, ptr, boxed, inner,
                   hist>>

\* A put that gives the slot back and stores t in a new allocation
\* (Box::new(t)), at whatever address the allocator picks.
put_write_fresh ==
    /\ pc = "put_write"
    /\ \E a \in (Addr \ live) \cup {ptr} :
          /\ live' = (live \ {ptr}) \cup {a}
          /\ mem' = [mem EXCEPT ![a] = t]
          /\ valid' = [valid EXCEPT ![a] = TRUE]
          /\ ptr' = a
          /\ access' = Access("alloc", a)
    /\ nallocs' = nallocs + 1
    /\ nfrees' = nfrees + 1
    /\ t' = Nil
    /\ pc' = "put_from_raw"
    /\ UNCHANGED <<callerVars, dtorVars, self, boxed, inner, hist, fault>>

\* A put that never writes t: the Box is rebuilt over the old bits.
put_write_skipped ==
    /\ pc = "put_write"
    /\ valid' = [valid EXCEPT ![ptr] = TRUE]
    /\ t' = Nil
    /\ pc' = "put_from_raw"
    /\ UNCHANGED <<mem, live, nallocs, nfrees, callerVars, dtorVars, self, ptr,
                   boxed, inner, access, hist, fault>>

\* A put that checks the slot first and panics when the slot already shows
\* the bits of t (the value just taken is put back).
put_write_panicsOnSame ==
    /\ pc = "put_write"
    /\ IF mem[ptr] = t
       THEN /\ fault' = "panic"
            /\ pc' = "idle"
            /\ UNCHANGED <<mem, valid, t, access>>
       ELSE /\ mem' = [mem EXCEPT ![ptr] = t]
            /\ valid' = [valid EXCEPT ![ptr] = TRUE]
            /\ t' = Nil
            /\ access' = Access("write", ptr)
            /\ fault' = fault
            /\ pc' = "put_from_raw"
    /\ UNCHANGED <<live, nallocs, nfrees, callerVars, dtorVars, self, ptr,
                   boxed, inner, hist>>

\* Line 69: ptr::write(ptr, t).  The old bits are overwritten without being
\* read or dropped.
put_write ==
    /\ pc = "put_write"
    /\ mem' = [mem EXCEPT ![ptr] = t]
    /\ valid' = [valid EXCEPT ![ptr] = TRUE]
    /\ t' = Nil
    /\ access' = Access("write", ptr)
    /\ fault' = IF ptr \in live THEN fault ELSE "use_after_free"
    /\ pc' = "put_from_raw"
    /\ UNCHANGED <<live, nallocs, nfrees, callerVars, dtorVars, self, ptr,
                   boxed, inner, hist>>

\* Lines 70-72: Box::from_raw(ptr) is returned.  At the end of the body a
\* `self` that was not moved away would be dropped (it was: line 66).
put_from_raw ==
    /\ pc = "put_from_raw"
    /\ boxes' = boxes \cup {ptr}
    /\ ptr' = Nil
    /\ pc' = IF self = Nil THEN "idle" ELSE "drop_from_raw"
    /\ UNCHANGED <<heapVars, empties, held, nvals, dtorVars, self, t,
                   boxed, inner, access, hist, fault>>

\* ------------------------------------------------------- Drop for EmptyBox
\* Lines 43-44: drop(&mut self) is entered, for mem::drop(empty) ("drop_empty")
\* as for an EmptyBox that goes out of scope ("scope_end", line 118).
drop_enter(e, how) ==
    /\ CanCall
    /\ e \in empties
    /\ empties' = empties \ {e}
    /\ self' = e
    /\ pc' = "drop_from_raw"
    /\ hist' = Append(hist, Call(how, e, Nil))
    /\ UNCHANGED <<heapVars, boxes, held, nvals, dtorVars, ptr, t, boxed,
                   inner, access, fault>>

\* Line 45: let boxed = unsafe { Box::from_raw(self.ptr) }.
drop_from_raw ==
    /\ pc = "drop_from_raw"
    /\ boxed' = self
    /\ access' = Access("as_box", self)
    /\ pc' = "drop_move"
    /\ UNCHANGED <<heapVars, callerVars, dtorVars, self, ptr, t, inner, hist,
                   fault>>

\* Line 46: let inner = *boxed.  The contents of the Box are moved to the
\* stack: the slot is read as a T.  What it reads are the bits take left
\* behind; every build copies them (or nothing) and nothing uses the copy.
drop_move ==
    /\ pc = "drop_move"
    /\ inner' = mem[boxed]
    /\ valid' = [valid EXCEPT ![boxed] = FALSE]
    /\ access' = Access("read", boxed)
    /\ pc' = "drop_forget"
    /\ UNCHANGED <<mem, live, nallocs, nfrees, callerVars, dtorVars, self, ptr,
                   t, boxed, hist, fault>>

\* A drop without line 47: `inner` is still owned when the body ends.
drop_forget_missing ==
    /\ pc = "drop_forget"
    /\ pc' = "drop_scope_end"
    /\ UNCHANGED <<heapVars, callerVars, dtorVars, localVars, access, hist,
                   fault>>

\* Line 47: mem::forget(inner).  No destructor runs for it.
drop_forget ==
    /\ pc = "drop_forget"
    /\ inner' = Nil
    /\ pc' = "drop_scope_end"
    /\ UNCHANGED <<heapVars, callerVars, dtorVars, self, ptr, t, boxed, access,
                   hist, fault>>

\* A drop that forgets the Box as well, so that nothing frees the allocation.
drop_scope_end_leak ==
    /\ pc = "drop_scope_end"
    /\ IF inner # Nil THEN RunDestructor(inner) ELSE UNCHANGED dtorVars
    /\ inner' = Nil
    /\ boxed' = Nil
    /\ self' = Nil
    /\ pc' = "idle"
    /\ UNCHANGED <<heapVars, callerVars, ptr, t, access, hist, fault>>

\* Line 48: the end of the body.  The locals are dropped: `inner` holds
\* nothing (line 47); `boxed` was moved out of, so only its allocation is
\* freed.
drop_scope_end ==
    /\ pc = "drop_scope_end"
    /\ IF inner # Nil THEN RunDestructor(inner) ELSE UNCHANGED dtorVars
    /\ live' = live \ {boxed}
    /\ nfrees' = nfrees + 1
    /\ access' = Access("free", boxed)
    /\ fault' = IF boxed \in live THEN fault ELSE "double_free"
    /\ inner' = Nil
    /\ boxed' = Nil
    /\ self' = Nil
    /\ pc' = "idle"
    /\ UNCHANGED <<mem, valid, nallocs, callerVars, ptr, t, hist>>

\* -------------------------------------------------------------------- Next
Next ==
    \/ NewValue
    \/ \E v \in Val, a \in Addr : BoxNew(v, a)
    \/ \E v \in Val : DropValue(v)
    \/ \E a \in Addr : DropBox(a)
    \/ \E bx \in Addr : take_into_raw(bx)
    \/ take_read
    \/ take_return
    \/ \E e \in Addr, v \in Val : put_enter(e, v)
    \/ put_forget
    \/ put_write
    \/ put_from_raw
    \/ \E e \in Addr, how \in {"drop_empty", "scope_end"} : drop_enter(e, how)
    \/ drop_from_raw
    \/ drop_move
    \/ drop_forget
    \/ drop_scope_end

Spec == Init /\ [][Next]_vars

\* --------------------------------------------------------------- invariants
TypeOK ==
    /\ mem \in [Addr -> Val \cup {Nil}]
    /\ valid \in [Addr -> BOOLEAN]
    /\ live \subseteq Addr
    /\ boxes \subseteq Addr /\ empties \subseteq Addr
    /\ held \subseteq Val
    /\ nvals \in 0..MaxVals
    /\ dropped \in [Val -> Nat]
    /\ counter \in Nat
    /\ Len(hist) <= MaxOps
    /\ fault = "none"

\* ------------------------------------------------------------------ claims
Idle == pc = "idle"
LastCall == hist[Len(hist)]

\* The calls that drop the EmptyBox at address a, explicitly or at scope end.
DropsOfEmpty(a) == {Call("drop_empty", a, Nil), Call("scope_end", a, Nil)}

\* From position i on, hist is: Box::new of a value, take of that Box, and
\* then nothing but drops of that value and of the emptied handle.
TakenThenOnlyDropped(i) ==
    /\ i + 1 <= Len(hist)
    /\ hist[i].op = "box"
    /\ hist[i + 1] = Call("take", hist[i].a, Nil)
    /\ \A j \in (i + 2)..Len(hist) :
          \/ hist[j] \in DropsOfEmpty(hist[i].a)
          \/ hist[j] = Call("drop_value", Nil, hist[i].v)

\* C1: after take(Box(v)) = (v, empty), dropping v and dropping empty without
\* a put, in either order, runs v's destructor exactly once in total: the
\* count of v's destructions is, at every step (the steps of the drop handler
\* included), the number of times v itself was dropped, so the drop of empty
\* adds none.
C1_TakenValueDestroyedOnce ==
    \A i \in 1..Len(hist) :
        TakenThenOnlyDropped(i) =>
            dropped[hist[i].v] =
                Cardinality({j \in (i + 2)..Len(hist) :
                                hist[j].op = "drop_value"})

\* v was boxed, taken, dropped, and then the emptied handle was dropped; one
\* destruction.
C1_Witness ==
    \E a \in Addr, v \in Val :
        /\ hist = <<Call("box", a, v), Call("take", a, Nil),
                    Call("drop_value", Nil, v), Call("drop_empty", a, Nil)>>
        /\ Idle
        /\ dropped[v] = 1
        /\ a \notin live

\* C2: while a slot is emptied (its bits are not a T the slot owns), no step
\* reads the slot as a T or destructs a T there, the steps of the drop handler
\* included.
C2_NoTypedAccessWhileEmptied ==
    ~(access.kind \in {"read", "destruct"} /\ ~access.valid)

\* C3: take and put preserve the address: the EmptyBox returned by take(bx)
\* holds the address bx had, the Box returned by empty.put(t) has the address
\* empty held, and after any number of take/put cycles on a Box the one
\* handle there is has the address of the original Box.
C3_AddressPreserved ==
    /\ (Idle /\ Len(hist) > 0 /\ LastCall.op = "take") => LastCall.a \in empties
    /\ (Idle /\ Len(hist) > 0 /\ LastCall.op = "put") => LastCall.a \in boxes
    /\ (/\ Idle
        /\ Len(hist) > 0
        /\ hist[1].op = "box"
        /\ \A j \in 2..Len(hist) : hist[j].op \in {"take", "put"})
       => /\ boxes \cup empties = {hist[1].a}
          /\ (LastCall.op = "take") = (empties = {hist[1].a})

\* Two full take/put cycles on one Box, which is still at its first address.
C3_Witness ==
    \E a \in Addr, v \in Val, w \in Val :
        /\ hist = <<Call("box", a, v), Call("take", a, Nil), Call("put", a, w),
                    Call("take", a, Nil), Call("put", a, v)>>
        /\ Idle
        /\ boxes = {a}
        /\ v # w

TakePcs == {"take_read", "take_ret"}
PutPcs  == {"put_forget", "put_write", "put_from_raw"}

\* C4: no step of take and no step of put changes the set of live
\* allocations: nothing is allocated and nothing is freed.
C4_TakePutKeepAllocations ==
    [][(pc \in TakePcs \cup PutPcs \/ pc' \in TakePcs \cup PutPcs)
          => (live' = live /\ nallocs' = nallocs /\ nfrees' = nfrees)]_vars

\* A take and a put have completed on the only allocation ever made.
C4_Witness ==
    /\ Idle
    /\ Len(hist) = 3
    /\ hist[2].op = "take"
    /\ hist[3].op = "put"
    /\ live = {hist[1].a}
    /\ nallocs = 1
    /\ nfrees = 0

\* The calls so far that run a destructor of T, and those that free.
NumDestroyCalls ==
    Cardinality({j \in 1..Len(hist) : hist[j].op \in {"drop_value", "drop_box"}})
NumFreeCalls ==
    Cardinality({j \in 1..Len(hist) :
                    hist[j].op \in {"drop_box", "drop_empty", "scope_end"}})

\* C5: dropping an emptied handle without put, explicitly or at the end of
\* its scope, frees its allocation exactly once (live until the handler's
\* last step, freed after it, never freed twice) and runs no destructor of T.
C5_EmptyDropFreesOnceNoDestructor ==
    \A a \in Addr :
        (Len(hist) > 0 /\ LastCall \in DropsOfEmpty(a)) =>
            /\ fault = "none"
            /\ counter = NumDestroyCalls
            /\ (a \in live) = ~Idle
            /\ nfrees = NumFreeCalls - (IF Idle THEN 0 ELSE 1)

\* The no_drop test: the EmptyBox went out of scope while the taken value is
\* still alive.
C5_Witness ==
    \E a \in Addr, v \in Val :
        /\ hist = <<Call("box", a, v), Call("take", a, Nil),
                    Call("scope_end", a, Nil)>>
        /\ Idle
        /\ a \notin live
        /\ nfrees = 1
        /\ v \in held
        /\ counter = 0

\* C6: no step of put runs a destructor: the count of destructions, of every
\* value and in total, is the same after each step of put as before it.
C6_PutRunsNoDestructor ==
    [][(pc \in PutPcs \/ pc' \in PutPcs)
          => (dropped' = dropped /\ counter' = counter)]_vars

\* A put has overwritten the stale bits of one value with another value.
C6_Witness ==
    \E a \in Addr, v \in Val, w \in Val :
        /\ hist = <<Call("box", a, v), Call("take", a, Nil), Call("put", a, w)>>
        /\ Idle
        /\ v # w
        /\ mem[a] = w
        /\ counter = 0

\* &*boxed (line 23): what a Box dereferences to.
Deref(a) == mem[a]

\* A Box at a that holds v, as Box::new(v) leaves it.
OccupiedBox(a, v) ==
    /\ a \in boxes
    /\ a \notin empties
    /\ a \in live
    /\ valid[a]
    /\ Deref(a) = v
    /\ v \notin held
    /\ fault = "none"

\* C7: the Box returned by empty.put(v) is like the Box returned by
\* Box::new(v): as soon as either call has returned the Box holds v at a live
\* address; a take of it returns v and leaves an emptied handle; a drop of it
\* destroys v once and frees the allocation once.
C7_PutBoxLikeFreshBox ==
    \A n \in (Len(hist) - 1)..Len(hist) :
        (n >= 1 /\ hist[n].op \in {"put", "box"}) =>
            LET a == hist[n].a
                v == hist[n].v
            IN  /\ (n = Len(hist) /\ Idle) => OccupiedBox(a, v)
                /\ (n + 1 = Len(hist) /\ Idle /\ LastCall = Call("take", a, Nil))
                      => (v \in held /\ a \in empties /\ a \in live
                          /\ dropped[v] = 0)
                /\ (n + 1 = Len(hist) /\ LastCall = Call("drop_box", a, Nil))
                      => (dropped[v] = 1 /\ a \notin live /\ fault = "none"
                          /\ nfrees = nallocs - Cardinality(live))

\* A Box made by put has been dropped.
C7_Witness ==
    \E a \in Addr, v \in Val, w \in Val :
        /\ hist = <<Call("box", a, v), Call("take", a, Nil), Call("put", a, w),
                    Call("drop_box", a, Nil)>>
        /\ v # w
        /\ dropped[w] = 1
        /\ dropped[v] = 0
        /\ live = {}

\* hist is the first n calls of the two_drop test (lines 126-138): Box::new
\* of a value, take, drop of the value, put of another value, drop of the Box.
TwoDropUpTo(n) ==
    /\ Len(hist) = n
    /\ n >= 3
    /\ hist[1].op = "box"
    /\ hist[2] = Call("take", hist[1].a, Nil)
    /\ hist[3] = Call("drop_value", Nil, hist[1].v)
    /\ n >= 4 => (hist[4].op = "put" /\ hist[4].a = hist[1].a
                  /\ hist[4].v # hist[1].v)
    /\ n >= 5 => hist[5] = Call("drop_box", hist[1].a, Nil)

\* C8: in the two_drop round trip (box v, take, drop v, put another value w,
\* drop the Box) the count is 1 once v is dropped and through the put, with
\* v destroyed once and w not, and exactly 2 at the end, one for each.
C8_TwoDropCountsTwo ==
    /\ TwoDropUpTo(3) => (counter = 1 /\ dropped[hist[1].v] = 1)
    /\ TwoDropUpTo(4) => (counter = 1 /\ dropped[hist[1].v] = 1
                          /\ dropped[hist[4].v] = 0)
    /\ TwoDropUpTo(5) => (counter = 2 /\ dropped[hist[1].v] = 1
                          /\ dropped[hist[4].v] = 1)

\* two_drop has run to its end.
C8_Witness ==
    /\ TwoDropUpTo(5)
    /\ Idle
    /\ counter = 2

\* C9: take runs no destructor: after Box::new and take, at every step of
\* take and after it, with the taken value and the emptied handle both
\* undropped, no destruction has been counted.
C9_TakeRunsNoDestructor ==
    (Len(hist) = 2 /\ hist[1].op = "box" /\ hist[2].op = "take")
        => (counter = 0 /\ \A v \in Val : dropped[v] = 0)

\* take has returned; the caller holds the value and the emptied handle.
C9_Witness ==
    /\ Len(hist) = 2
    /\ hist[1].op = "box"
    /\ hist[2].op = "take"
    /\ Idle
    /\ hist[1].v \in held
    /\ hist[1].a \in empties
    /\ counter = 0

\* hist is the first n calls of the crate example (lines 10-20): Box::new of
\* a value, take, put of a value.
SwapUpTo(n) ==
    /\ Len(hist) = n
    /\ n >= 2
    /\ hist[1].op = "box"
    /\ hist[2] = Call("take", hist[1].a, Nil)
    /\ n >= 3 => (hist[3].op = "put" /\ hist[3].a = hist[1].a)

\* C10: take of a Box holding v returns exactly v (the caller then holds v
\* next to the values it held before), and the Box returned by putting w into
\* the emptied handle dereferences to exactly w, payload included.
C10_ValueSwap ==
    /\ (SwapUpTo(2) /\ Idle) => (hist[1].v \in held /\ held = 1..nvals)
    /\ (SwapUpTo(3) /\ Idle)
          => /\ hist[1].a \in boxes
             /\ Deref(hist[1].a) = hist[3].v
             /\ DataOf(Deref(hist[1].a)) = DataOf(hist[3].v)
             /\ held = (1..nvals) \ {hist[3].v}

\* The crate example: "Hello!" taken out, the superior string put in.
C10_Witness ==
    \E a \in Addr, v \in Val, w \in Val :
        /\ hist = <<Call("box", a, v), Call("take", a, Nil), Call("put", a, w)>>
        /\ Idle
        /\ DataOf(v) = "Hello!"
        /\ DataOf(w) = "Objectively superior string!"
        /\ v \in held
        /\ DataOf(Deref(a)) = "Objectively superior string!"

\* hist[i], hist[i+1] are Box::new of a value and the take of that Box, the
\* take has returned, and no later call is given that value (no drop of it,
\* no put of it, no Box::new of it): the caller still has what take returned.
TakenAndKept(i) ==
    /\ i + 1 <= Len(hist)
    /\ hist[i].op = "box"
    /\ hist[i + 1] = Call("take", hist[i].a, Nil)
    /\ (i + 1 < Len(hist) \/ Idle)
    /\ \A j \in (i + 2)..Len(hist) : hist[j].v # hist[i].v

\* C11: the value returned by take stays with the caller, the same value and
\* undestroyed, whatever is done afterwards with the emptied handle: at every
\* step of a later put of another value into the slot and of a later drop of
\* the emptied handle it is still held and its destructor has not run.
C11_TakenValueStaysValid ==
    \A i \in 1..Len(hist) :
        TakenAndKept(i) =>
            (hist[i].v \in held /\ dropped[hist[i].v] = 0)

\* v was taken, w was put into the slot and taken again, and the emptied
\* handle was dropped: v and w are both still held, undestroyed.
C11_Witness ==
    /\ Len(hist) = 5
    /\ Idle
    /\ TakenAndKept(1)
    /\ hist[3].op = "put" /\ hist[3].a = hist[1].a
    /\ hist[4] = Call("take", hist[1].a, Nil)
    /\ hist[5] = Call("drop_empty", hist[1].a, Nil)
    /\ held = {hist[1].v, hist[3].v}
    /\ counter = 0

DropPcs == {"drop_from_raw", "drop_move", "drop_forget", "drop_scope_end"}

\* The addresses the running handler owns through its parameter and locals
\* (self, ptr, boxed) between taking a handle over and giving one back.
InFlight == {self, ptr, boxed} \ {Nil}

\* C12: every live allocation has exactly one handle, a Box or an EmptyBox
\* and never both, and every handle refers to a live allocation; between two
\* calls the handle is one the caller holds, and while take, put or drop runs
\* on an allocation it is the one the handler was given and nothing else.
C12_ExactlyOneHandle ==
    \A a \in Addr :
        /\ ~(a \in boxes /\ a \in empties)
        /\ Idle => (InFlight = {} /\ (a \in live) = (a \in boxes \cup empties))
        /\ ~Idle => /\ (a \in live) = (a \in boxes \cup empties \cup InFlight)
                    /\ a \in InFlight => a \notin boxes \cup empties

\* Two allocations at once, one behind a Box and one behind an EmptyBox, after
\* a take, a put and a take.
C12_Witness ==
    /\ Idle
    /\ Cardinality(live) = 2
    /\ Cardinality(boxes) = 1
    /\ Cardinality(empties) = 1
    /\ boxes \cup empties = live
    /\ Cardinality({j \in 1..Len(hist) : hist[j].op = "take"}) = 2
    /\ Cardinality({j \in 1..Len(hist) : hist[j].op = "put"}) = 1

\* The latest call made on the handle at address a ("none" when there is
\* none).
LastCallOn(a) ==
    LET J == {j \in 1..Len(hist) : hist[j].a = a}
    IN  IF J = {} THEN Call("none", a, Nil)
        ELSE hist[CHOOSE j \in J : \A k \in J : k <= j]

\* C13: every emptied handle comes from a take: for each EmptyBox the caller
\* holds, the latest call on its address is a take (no put, no drop and no
\* Box::new after it), and between calls a live slot is in the emptied state
\* only when an EmptyBox made by that take holds it.
C13_EmptiedOnlyByTake ==
    \A a \in Addr :
        /\ a \in empties => LastCallOn(a).op = "take"
        /\ (Idle /\ a \in live /\ ~valid[a])
              => (a \in empties /\ LastCallOn(a).op = "take")

\* A slot emptied for the second time: box, take, put, take.
C13_Witness ==
    \E a \in empties :
        /\ Idle
        /\ Len(hist) = 4
        /\ hist[1].op = "box" /\ hist[1].a = a
        /\ hist[2] = Call("take", a, Nil)
        /\ hist[3].op = "put" /\ hist[3].a = a
        /\ hist[4] = Call("take", a, Nil)
        /\ ~valid[a]

\* C14: take and put are total: whenever the caller may make a call, take can
\* be called on every Box it holds and put on every EmptyBox it holds with
\* every value it holds; once entered, each statement of take and put can
\* run, so the call returns; and it returns its result (the EmptyBox, the
\* Box) without any fault.
C14_TakePutTotal ==
    /\ CanCall => /\ \A bx \in boxes : ENABLED take_into_raw(bx)
                  /\ \A e \in empties : \A v \in held : ENABLED put_enter(e, v)
    /\ pc = "take_read" => ENABLED take_read
    /\ pc = "take_ret" => ENABLED take_return
    /\ pc = "put_forget" => ENABLED put_forget
    /\ pc = "put_write" => ENABLED put_write
    /\ pc = "put_from_raw" => ENABLED put_from_raw
    /\ (Len(hist) > 0 /\ LastCall.op \in {"take", "put"}) =>
          /\ fault = "none"
          /\ pc \in {"idle"} \cup TakePcs \cup PutPcs
          /\ (Idle /\ LastCall.op = "take") => LastCall.a \in empties
          /\ (Idle /\ LastCall.op = "put") => LastCall.a \in boxes

\* The caller holds a Box, an EmptyBox and a value at once, after a put of the
\* value that had just been taken from the same slot.
C14_Witness ==
    /\ CanCall
    /\ boxes # {}
    /\ empties # {}
    /\ held # {}
    /\ \E j \in 2..Len(hist) :
          /\ hist[j].op = "put"
          /\ hist[j - 1] = Call("take", hist[j].a, Nil)
          /\ \E i \in 1..(j - 1) : hist[i] = Call("box", hist[j].a, hist[j].v)

\* Every handle and every value the caller ever had has been dropped.
AllDropped == Idle /\ boxes = {} /\ empties = {} /\ held = {}

\* C15: conservation over any sequence of take, put and drop: every value is
\* destroyed at most once and the counter counts exactly the destroyed
\* values; no allocation is freed more than once (frees = allocations minus
\* those still live); and once every handle and value is dropped, each value
\* created has been destroyed once and each allocation freed once.
C15_Conservation ==
    /\ \A v \in Val : dropped[v] <= 1
    /\ counter = Cardinality({v \in Val : dropped[v] >= 1})
    /\ nfrees = nallocs - Cardinality(live)
    /\ AllDropped => /\ counter = nvals
                     /\ \A v \in 1..nvals : dropped[v] = 1
                     /\ nfrees = nallocs
                     /\ live = {}
                     /\ fault = "none"

\* One allocation went through two take/put cycles and everything has been
\* dropped.
C15_Witness ==
    /\ AllDropped
    /\ nallocs = 1
    /\ nfrees = 1
    /\ nvals >= 1
    /\ counter = nvals
    /\ Cardinality({j \in 1..Len(hist) : hist[j].op = "take"}) = 2
    /\ Cardinality({j \in 1..Len(hist) : hist[j].op = "put"}) = 2

\* C16: an emptied handle consumed by put never runs its drop handler: the
\* handle is forgotten before the value is written, the drop handler runs
\* only for a handle the caller dropped, the allocation is live when put
\* writes, when it rebuilds the Box and when it returns, put releases nothing,
\* and the release after a put is the one of the drop of the returned Box.
C16_PutNeverRunsDrop ==
    /\ pc \in {"put_write", "put_from_raw"} => (self = Nil /\ ptr \in live)
    /\ pc \in DropPcs => LastCall \in DropsOfEmpty(self)
    /\ (Len(hist) > 0 /\ LastCall.op = "put") =>
          /\ LastCall.a \in live
          /\ nfrees = NumFreeCalls
          /\ fault = "none"
    /\ (/\ Len(hist) >= 2
        /\ hist[Len(hist) - 1].op = "put"
        /\ LastCall = Call("drop_box", hist[Len(hist) - 1].a, Nil)) =>
          /\ LastCall.a \notin live
          /\ nfrees = NumFreeCalls
          /\ fault = "none"

\* A slot was put into twice and the Box of the second put was dropped: one
\* release in all.
C16_Witness ==
    /\ Len(hist) = 6
    /\ Idle
    /\ hist[3].op = "put"
    /\ hist[5].op = "put"
    /\ hist[5].a = hist[3].a
    /\ hist[6] = Call("drop_box", hist[5].a, Nil)
    /\ nfrees = 1
    /\ live = {}

=============================================================================
